---- MODULE Spec2Model ----
(***************************************************************************)
(* A model of the mesh-hypothesis registry (afem/fem/hypotheses.py) and of *)
(* the surface-part operators (asap/structure/surface_part.py).            *)
(*                                                                         *)
(* Python objects are heap cells: a hypothesis is a position in `created`, *)
(* a stiffener is a record with a unique uid.  Every operation records its *)
(* name, its arguments, the kernel functions it invoked and its result in  *)
(* op / args / kcalls / ret, so that a property of one call is a property  *)
(* of one step.                                                            *)
(***************************************************************************)
EXTENDS Integers, Sequences, FiniteSets, TLC

VARIABLES
    _all,            \* Hypothesis._all : label -> hypothesis (position in created)
    _indx,           \* Hypothesis._indx : the id counter
    created,         \* every hypothesis object constructed so far, in order
    _surface_shape,  \* SurfacePart._surface_shape
    _sref,           \* SurfacePart._sref
    _fshapes,        \* SurfacePart._fshapes
    _subparts,       \* Part._subparts : label -> subpart
    shape,           \* the part's own shape
    nparts,          \* number of stiffener objects constructed so far
    op,              \* name of the last operation called
    args,            \* its arguments
    kcalls,          \* the kernel functions it invoked, in order
    ret,             \* its result
    pc,              \* the statement each thread of the interleaved model is at
    building,        \* the hypothesis each of these threads is constructing
    overlapped       \* whether a creation began while another was under way

vars == <<_all, _indx, created, _surface_shape, _sref, _fshapes, _subparts, shape,
          nparts, op, args, kcalls, ret, pc, building,
          overlapped>>

hypVars == <<_all, _indx, created>>
partVars == <<_surface_shape, _sref, _fshapes, _subparts, shape, nparts>>
threadVars == <<pc, building, overlapped>>

(***************************************************************************)
(* Bounds of the model.                                                    *)
(***************************************************************************)
MaxCreate == 2
MaxArgs == 2
MaxStiffeners == 2
MaxThreadCreate == 3

(***************************************************************************)
(* Python values.  Every value is a record with a class, so that any two   *)
(* values can be compared.                                                 *)
(***************************************************************************)
Obj(cls, null, kind, tag) == [cls |-> cls, null |-> null, kind |-> kind, tag |-> tag]

PyNone == Obj("NoneType", TRUE, "NONE", 0)
PyStr(s) == Obj("str", FALSE, s, 0)
PyBool(b) == Obj("bool", FALSE, IF b THEN "True" ELSE "False", 0)
PyDict(items) == [cls |-> "dict", items |-> items]
NotAShape == Obj("object", FALSE, "NONE", 0)
NullShape == Obj("TopoDS_Shape", TRUE, "NONE", 0)
Shape(kind, tag) == Obj("TopoDS_Shape", FALSE, kind, tag)
\* a Hypothesis object is a reference to its cell in `created`
HypRef(ref) == Obj("Hypothesis", FALSE, "NONE", ref)
\* a Stiffener object: its label and the identity of the object
StiffenerObj(label, uid) == Obj("Stiffener", FALSE, label, uid)

Returned(obj) == [status |-> "ok", obj |-> obj]
Raised(exc) == [status |-> exc, obj |-> PyNone]

EmptyDict == [k \in {} |-> 0]

\* d[k] = v : binds k to v, replacing what k was bound to.
DictSet(d, k, v) ==
    [x \in (DOMAIN d) \cup {k} |-> IF x = k THEN v ELSE d[x]]

\* d.setdefault(k, v) : binds k to v unless k is bound.
DictSetDefault(d, k, v) ==
    [x \in (DOMAIN d) \cup {k} |-> IF x \in DOMAIN d THEN d[x] ELSE v]

Range(seq) == {seq[i] : i \in 1..Len(seq)}
SeqsUpTo(S, n) == UNION {[1..k -> S] : k \in 0..n}

(***************************************************************************)
(* The hypothesis registry.                                                *)
(***************************************************************************)
Labels == {"e1", "e2"}
Strings == Labels \cup {"missing"}

Kinds == {"Regular1D", "MaxLength1D", "LocalLength1D", "NumberOfSegments1D",
          "Adaptive1D", "Deflection1D", "NetgenHypothesis", "NetgenSimple2D",
          "NetgenAlgo2D", "NetgenAlgoOnly2D", "QuadrangleParams2D",
          "Quadrangle2D"}

the_gen == "the_gen"

\* a handle built from the counter after it moved
EngineHandleAfterIncrement(indx) == [id |-> indx + 1, dim |-> 0, gen |-> the_gen]

\* The engine handle every kind-specific constructor builds first:
\* StdMeshers_X(Hypothesis._indx, 0, the_gen).
EngineHandle(indx) == [id |-> indx, dim |-> 0, gen |-> the_gen]

\* a counter that is not advanced
NextIndxStuck(indx) == indx

\* Hypothesis._indx += 1
NextIndx(indx) == indx + 1

\* a registration that keeps the hypothesis already bound to the label
RegisterKeepFirst(all, label, self) == DictSetDefault(all, label, self)

\* Hypothesis._all[label] = self
Register(all, label, self) == DictSet(all, label, self)

\* isinstance(hypothesis, Hypothesis)
IsHypothesis(x) == x.cls = "Hypothesis"

\* a lookup that defaults where get_hypothesis raises
get_hypothesis_default(all, objs, hypothesis) ==
    IF IsHypothesis(hypothesis) THEN Returned(hypothesis)
    ELSE IF hypothesis.kind \in DOMAIN all THEN Returned(HypRef(all[hypothesis.kind]))
    ELSE Returned(PyNone)

\* a lookup that resolves an instance through its label
get_hypothesis_by_label(all, objs, hypothesis) ==
    IF IsHypothesis(hypothesis) THEN Returned(HypRef(all[objs[hypothesis.tag].label]))
    ELSE IF hypothesis.kind \in DOMAIN all THEN Returned(HypRef(all[hypothesis.kind]))
    ELSE Raised("KeyError")

\* Hypothesis.get_hypothesis (HypothesisAPI.get_hypothesis forwards to it);
\* objs is the heap of hypothesis objects.
get_hypothesis(all, objs, hypothesis) ==
    IF IsHypothesis(hypothesis) THEN Returned(hypothesis)
    ELSE IF hypothesis.kind \in DOMAIN all THEN Returned(HypRef(all[hypothesis.kind]))
    ELSE Raised("KeyError")

\* a constructor that calls Hypothesis.__init__ before it builds the handle
RegistryAfterInitFirst(all, indx, self, label, raises) ==
    [all |-> Register(all, label, self), indx |-> NextIndx(indx)]

\* The registry and the counter a kind-specific constructor leaves.  Its
\* first statement builds the engine handle; when that raises, the call of
\* Hypothesis.__init__(label) that follows is never reached.
RegistryAfterCreate(all, indx, self, label, raises) ==
    IF raises THEN [all |-> all, indx |-> indx]
    ELSE [all |-> Register(all, label, self), indx |-> NextIndx(indx)]

\* The kind-specific constructors: build the engine handle from the counter,
\* then Hypothesis.__init__(label).  The parameter setters that follow act on
\* the handle only.  `raises` tells whether the engine refuses the handle.
CreateHypothesis(kind, label, raises) ==
    /\ Len(created) < MaxCreate
    /\ LET handle == EngineHandle(_indx)
           self == Len(created) + 1
           after == RegistryAfterCreate(_all, _indx, self, label, raises)
       IN /\ created' = IF raises THEN created
                         ELSE Append(created, [label |-> label, id |-> _indx,
                                               kind |-> kind, handle |-> handle])
          /\ _all' = after.all
          /\ _indx' = after.indx
          /\ op' = "create"
          /\ args' = <<PyStr(kind), PyStr(label)>>
          /\ kcalls' = <<>>
          /\ ret' = IF raises THEN Raised("RuntimeError") ELSE Returned(HypRef(self))
    /\ UNCHANGED <<partVars, threadVars>>

\* HypothesisAPI.get_hypothesis(hypothesis)
GetHypothesis(hypothesis) ==
    /\ op' = "get_hypothesis"
    /\ args' = <<hypothesis>>
    /\ kcalls' = <<>>
    /\ ret' = get_hypothesis(_all, created, hypothesis)
    /\ UNCHANGED <<hypVars, threadVars>>
    /\ UNCHANGED partVars

HypArgs == {HypRef(r) : r \in 1..Len(created)} \cup {PyStr(s) : s \in Strings}


(***************************************************************************)
(* Creations by threads that interleave between statements.  A creation is *)
(* NumberOfSegments1D(label, nseg): its four statements that touch the     *)
(* class state are one step each.  Nothing in the module locks the class   *)
(* state, so every interleaving of the steps of the threads is a run.      *)
(***************************************************************************)
Threads == {"t1", "t2"}
ThreadKind == "NumberOfSegments1D"
\* the _id of an object whose Hypothesis.__init__ has not assigned it yet
NoId == -1

\* self._hypothesis = StdMeshers_NumberOfSegments(Hypothesis._indx, 0, the_gen)
ReadCounterForHandle(t, label) ==
    /\ pc[t] = "idle"
    /\ Len(created) < MaxThreadCreate
    /\ created' = Append(created, [label |-> label, id |-> NoId, kind |-> ThreadKind,
                                   handle |-> EngineHandle(_indx)])
    /\ building' = [building EXCEPT ![t] = Len(created) + 1]
    /\ pc' = [pc EXCEPT ![t] = "register"]
    /\ overlapped' = (overlapped \/ \E u \in Threads \ {t} : pc[u] # "idle")
    /\ op' = "read_counter_for_handle"
    /\ args' = <<PyStr(t), PyStr(label)>>
    /\ UNCHANGED <<_all, _indx, kcalls, ret>>
    /\ UNCHANGED partVars

\* Hypothesis._all[label] = self
RegisterLabel(t) ==
    /\ pc[t] = "register"
    /\ _all' = Register(_all, created[building[t]].label, building[t])
    /\ pc' = [pc EXCEPT ![t] = "assign_id"]
    /\ op' = "register_label"
    /\ args' = <<PyStr(t)>>
    /\ UNCHANGED <<_indx, created, building, overlapped, kcalls, ret>>
    /\ UNCHANGED partVars

\* self._id = Hypothesis._indx
AssignId(t) ==
    /\ pc[t] = "assign_id"
    /\ created' = [created EXCEPT ![building[t]].id = _indx]
    /\ pc' = [pc EXCEPT ![t] = "increment"]
    /\ op' = "assign_id"
    /\ args' = <<PyStr(t)>>
    /\ UNCHANGED <<_all, _indx, building, overlapped, kcalls, ret>>
    /\ UNCHANGED partVars

\* Hypothesis._indx += 1, after which the constructor only sets parameters
\* of the handle and returns
IncrementCounter(t) ==
    /\ pc[t] = "increment"
    /\ _indx' = NextIndx(_indx)
    /\ pc' = [pc EXCEPT ![t] = "idle"]
    /\ op' = "increment_counter"
    /\ args' = <<PyStr(t)>>
    /\ UNCHANGED <<_all, created, building, overlapped, kcalls, ret>>
    /\ UNCHANGED partVars

(***************************************************************************)
(* Shapes                                                                  *)
(***************************************************************************)
\* TopAbs_ShapeEnum
ShapeKinds == {"COMPOUND", "COMPSOLID", "SOLID", "SHELL", "FACE", "WIRE",
               "EDGE", "VERTEX"}

\* isinstance(x, TopoDS_Shape), x.IsNull(), and Python truth (`not x` is true
\* of None only: none of these classes defines __bool__ or __len__).
IsShape(x) == x.cls = "TopoDS_Shape"
IsNull(x) == x.null
Truthy(x) == x.cls # "NoneType"

\* One invocation of a kernel function of asap.structure.methods: its name,
\* the objects handed to it besides the part itself (always its first
\* argument) and its flags, and what it gave back.
KCall(fn, operands, result) == [fn |-> fn, operands |-> operands, result |-> result]

(***************************************************************************)
(* The geometry kernel: each function is the set of outcomes it may have.  *)
(***************************************************************************)
\* ShapeTools.to_shape: the canonical shape of a shape, None for anything
\* that is none (None, a null shape, an object that is no shape).
to_shape(x) == IF IsShape(x) /\ ~IsNull(x) THEN x ELSE PyNone

TrimmedShapes == {Shape("SHELL", 1), Shape("SHELL", 2)}
PartShapes == {Shape("COMPOUND", 1)}

\* what trimming the surface shape with `body` gives when it gives a shape
TrimmedOf(body) == Shape("SHELL", body.tag)

\* form_with_solid(surface_shape, body): the trimmed shape, or None.
form_with_solid(surface_shape, body) ==
    IF Truthy(surface_shape) THEN {TrimmedOf(body), PyNone} ELSE {PyNone}

\* fuse_surface_part, sew_surface_parts, discard_faces_by_*: succeed (the
\* part's shape is replaced) or fail (nothing changes).
ModifyOutcomes(cur) ==
    {[ok |-> FALSE, shape |-> cur]} \cup {[ok |-> TRUE, shape |-> s] : s \in PartShapes}

\* build_surface_part, merge_surface_part, unify_surface_part: the new shape.
ShapeOutcomes(cur) == {cur} \cup PartShapes

\* add_stiffener_to_surface_part(self, stiffener, label): a new Stiffener
\* carrying `label`, or None.
add_stiffener_to_surface_part(label, uid) == {StiffenerObj(label, uid), PyNone}


\* ShapeTools.get_faces(shape): the faces of a shape, in the order the
\* explorer meets them (a wire or an edge has none).
get_faces(shp) ==
    IF shp.kind \in {"COMPOUND", "COMPSOLID", "SOLID", "SHELL"}
    THEN <<Shape("FACE", 2), Shape("FACE", 3), Shape("FACE", 1)>>
    ELSE IF shp.kind = "FACE" THEN <<shp>> ELSE <<>>

\* the area of a face
FaceArea(face) == face.tag

\* ShapeTools.largest_face(faces): the face of the largest area.
largest_face(faces) ==
    IF faces = <<>> THEN PyNone
    ELSE CHOOSE f \in Range(faces) : \A g \in Range(faces) : FaceArea(g) <= FaceArea(f)

\* ShapeTools.surface_of_face(face): the surface underlying a face.
surface_of_face(face) == Obj("Surface", FALSE, "NONE", face.tag)

(***************************************************************************)
(* SurfacePart                                                             *)
(***************************************************************************)
Bodies == {Shape("SOLID", 1), Shape("SOLID", 2)}
Operands == {NotAShape, NullShape, Shape("FACE", 1)}
DiscardInputs == {PyNone, NotAShape, NullShape} \cup {Shape(k, 1) : k \in ShapeKinds}
PartLabels == {"s1", "s2"}
StiffenerSpecs == {Shape("EDGE", 1)}
SurfaceInputs == {PyNone, Shape("SHELL", 0)}
SrefSurfaceInputs == SurfaceInputs \cup {NullShape, NotAShape, Shape("WIRE", 0)}


\* a choice of the face the explorer meets first
_set_sref_first_face(surface_shape) ==
    IF ~Truthy(surface_shape) \/ IsNull(surface_shape) THEN PyNone
    ELSE IF get_faces(surface_shape) = <<>> THEN PyNone
    ELSE surface_of_face(get_faces(surface_shape)[1])

\* SurfacePart._set_sref, called by __init__ when _sref is None: the value
\* of _sref it leaves.
_set_sref(surface_shape) ==
    IF ~Truthy(surface_shape) \/ IsNull(surface_shape) THEN PyNone
    ELSE LET faces == get_faces(surface_shape)
         IN IF faces = <<>> THEN PyNone
            ELSE LET face == largest_face(faces)
                 IN IF ~Truthy(face) THEN PyNone
                    ELSE LET sref == surface_of_face(face)
                         IN IF ~Truthy(sref) THEN PyNone ELSE sref

\* a loop body that records every result as a success
form_iter_unchecked(acc, body, shp) ==
    [status |-> DictSet(acc.status, body, TRUE),
     fshapes |-> acc.fshapes \cup {shp}]

\* One pass of the loop of form: the status map and the formed shapes after
\* form_with_solid gave `shp` for `body`.
form_iter(acc, body, shp) ==
    IF ~Truthy(shp)
    THEN [status |-> DictSet(acc.status, body, FALSE), fshapes |-> acc.fshapes]
    ELSE [status |-> DictSet(acc.status, body, TRUE),
          fshapes |-> acc.fshapes \cup {shp}]

RECURSIVE form_loop(_, _, _)
form_loop(acc, bodies, k) ==
    IF bodies = <<>> THEN acc
    ELSE form_loop(form_iter(acc, Head(bodies), k[Head(bodies)]), Tail(bodies), k)

\* SurfacePart.form(*bodies); k is what form_with_solid gives for each body
\* (the same for a body given twice: the surface shape does not change).
Form(bodies, k) ==
    /\ \A b \in Bodies : k[b] \in form_with_solid(_surface_shape, b)
    /\ LET r == form_loop([status |-> EmptyDict, fshapes |-> _fshapes], bodies, k)
       IN /\ _fshapes' = r.fshapes
          /\ ret' = Returned(PyDict(r.status))
    /\ op' = "form"
    /\ args' = bodies
    /\ kcalls' = [i \in 1..Len(bodies) |->
                    KCall("form_with_solid", <<_surface_shape, bodies[i]>>,
                          k[bodies[i]])]
    /\ UNCHANGED <<_surface_shape, _sref, _subparts, shape, nparts>>
    /\ UNCHANGED <<hypVars, threadVars>>

\* SurfacePart.build(unify)
Build(unify) ==
    /\ \E s \in ShapeOutcomes(shape) :
          /\ shape' = s
          /\ ret' = Returned(s)
          /\ kcalls' = <<KCall("build_surface_part", <<PyBool(unify)>>, s)>>
    /\ op' = "build"
    /\ args' = <<PyBool(unify)>>
    /\ UNCHANGED <<_surface_shape, _sref, _fshapes, _subparts, nparts>>
    /\ UNCHANGED <<hypVars, threadVars>>

\* a test that forgets IsNull
IsOperandNoNullCheck(part) == IsShape(part)

\* if isinstance(part, TopoDS_Shape) and not part.IsNull()
IsOperand(part) == IsShape(part) /\ ~IsNull(part)

\* no filtering at all
FilterPartsNone(other_parts) == other_parts

\* the loop building _other_parts
FilterParts(other_parts) == SelectSeq(other_parts, IsOperand)

\* SurfacePart.fuse(*other_parts) and SurfacePart.sew(*other_parts)
FuseOrSew(name, fn, other_parts) ==
    LET _other_parts == FilterParts(other_parts)
    IN /\ op' = name
       /\ args' = other_parts
       /\ IF _other_parts = <<>>
          THEN /\ ret' = Returned(PyBool(FALSE))
               /\ kcalls' = <<>>
               /\ shape' = shape
          ELSE \E o \in ModifyOutcomes(shape) :
                  /\ ret' = Returned(PyBool(o.ok))
                  /\ kcalls' = <<KCall(fn, _other_parts, PyBool(o.ok))>>
                  /\ shape' = o.shape
       /\ UNCHANGED <<_surface_shape, _sref, _fshapes, _subparts, nparts>>
       /\ UNCHANGED <<hypVars, threadVars>>

Fuse(other_parts) == FuseOrSew("fuse", "fuse_surface_part", other_parts)

Sew(other_parts) == FuseOrSew("sew", "sew_surface_parts", other_parts)

\* SurfacePart.merge(other, unify)
Merge(other, unify) ==
    /\ op' = "merge"
    /\ args' = <<other, PyBool(unify)>>
    /\ \E s \in ShapeOutcomes(shape) :
          /\ shape' = s
          /\ ret' = Returned(s)
          /\ kcalls' = <<KCall("merge_surface_part", <<other>>, s)>>
    /\ UNCHANGED <<_surface_shape, _sref, _fshapes, _subparts, nparts>>
    /\ UNCHANGED <<hypVars, threadVars>>

\* SurfacePart.unify(edges, faces, concat_bsplines)
Unify ==
    /\ op' = "unify"
    /\ args' = <<>>
    /\ \E s \in ShapeOutcomes(shape) :
          /\ shape' = s
          /\ ret' = Returned(s)
          /\ kcalls' = <<KCall("unify_surface_part", <<>>, s)>>
    /\ UNCHANGED <<_surface_shape, _sref, _fshapes, _subparts, nparts>>
    /\ UNCHANGED <<hypVars, threadVars>>

\* a test that forgets TopAbs_COMPSOLID
IsSolidKindOnly(kind) == kind = "SOLID"

\* shape.ShapeType() in [TopAbs_SOLID, TopAbs_COMPSOLID]
IsSolidKind(kind) == kind \in {"SOLID", "COMPSOLID"}

\* the policy discard chooses for a normalized, non-None shape
DiscardPolicy(shp) ==
    IF IsSolidKind(shp.kind) THEN "discard_faces_by_solid"
    ELSE "discard_faces_by_distance"

\* SurfacePart.discard(shape, tol)
Discard(input) ==
    LET shp == to_shape(input)
    IN /\ op' = "discard"
       /\ args' = <<input>>
       /\ IF ~Truthy(shp)
          THEN /\ ret' = Returned(PyBool(FALSE))
               /\ kcalls' = <<>>
               /\ shape' = shape
          ELSE \E o \in ModifyOutcomes(shape) :
                  /\ ret' = Returned(PyBool(o.ok))
                  /\ kcalls' = <<KCall(DiscardPolicy(shp), <<shp>>, PyBool(o.ok))>>
                  /\ shape' = o.shape
       /\ UNCHANGED <<_surface_shape, _sref, _fshapes, _subparts, nparts>>
       /\ UNCHANGED <<hypVars, threadVars>>

\* a registration that keeps the subpart already bound to the label
RegisterSubpartKeepFirst(subparts, stiffener) ==
    DictSetDefault(subparts, stiffener.kind, stiffener)

\* self._subparts[stiffener.label] = stiffener
RegisterSubpart(subparts, stiffener) == DictSet(subparts, stiffener.kind, stiffener)

\* a registration under `label` made before the result is tested
SubpartsRegisterFirst(subparts, label, stiffener) ==
    DictSet(subparts, label, stiffener)

\* the subpart mapping add_stiffener leaves when the kernel gave `stiffener`:
\* if not stiffener: return None / self._subparts[stiffener.label] = stiffener
SubpartsAfterAdd(subparts, label, stiffener) ==
    IF ~Truthy(stiffener) THEN subparts ELSE RegisterSubpart(subparts, stiffener)

\* SurfacePart.add_stiffener(label, stiffener)
AddStiffener(label, spec) ==
    /\ nparts < MaxStiffeners
    /\ \E stiffener \in add_stiffener_to_surface_part(label, nparts + 1) :
          /\ _subparts' = SubpartsAfterAdd(_subparts, label, stiffener)
          /\ ret' = IF ~Truthy(stiffener) THEN Returned(PyNone) ELSE Returned(stiffener)
          /\ kcalls' = <<KCall("add_stiffener_to_surface_part",
                              <<spec, PyStr(label)>>, stiffener)>>
          /\ nparts' = IF Truthy(stiffener) THEN nparts + 1 ELSE nparts
    /\ op' = "add_stiffener"
    /\ args' = <<PyStr(label), spec>>
    /\ UNCHANGED <<_surface_shape, _sref, _fshapes, shape>>
    /\ UNCHANGED <<hypVars, threadVars>>

(***************************************************************************)
(* Mesh data of a part: SurfacePart.elements and SurfacePart.nodes.  The   *)
(* mesh is read, never written; what the mesh holds when the property is   *)
(* read is an input `m` of the call:                                       *)
(*   m.smesh_obj  the object MeshData.get_mesh().smesh_obj,                *)
(*   m.submesh    the state of the sub-mesh of the compound of the part's  *)
(*                faces: "new" (none existed, the engine makes one),       *)
(*                "empty", "nodata" (not empty but without data), "data",  *)
(*   m.elms       the raw elements the sub-mesh data lists.                *)
(***************************************************************************)
PyList(elts) == [cls |-> "list", elts |-> elts]
PySet(members) == [cls |-> "set", members |-> members]

SMESH_Mesh == Obj("SMESH_Mesh", FALSE, "NONE", 0)
\* isinstance(x, SMESH_Mesh)
IsMesh(x) == x.cls = "SMESH_Mesh"
SubMesh(state) == Obj("SMESH_subMesh", FALSE, state, 0)
SubMeshDS == Obj("SMESHDS_SubMesh", FALSE, "NONE", 0)
Elm2D(raw) == Obj("Elm2D", FALSE, "NONE", raw)
Node(nid) == Obj("Node", FALSE, "NONE", nid)

RawElms == {1, 2}
SubMeshStates == {"new", "empty", "nodata", "data"}

MeshInputs ==
    {[smesh_obj |-> o, submesh |-> "new", elms |-> {}] : o \in {PyNone, NotAShape}}
    \cup {[smesh_obj |-> SMESH_Mesh, submesh |-> s, elms |-> {}] :
             s \in SubMeshStates \ {"data"}}
    \cup {[smesh_obj |-> SMESH_Mesh, submesh |-> "data", elms |-> e] :
             e \in (SUBSET RawElms) \ {{}}}

\* SMESH_Mesh.GetSubMesh(compound): the sub-mesh of the compound, made on
\* demand when there was none.
GetSubMesh(m) == SubMesh(m.submesh)
\* SMESH_subMesh.IsEmpty()
IsEmpty(submesh) == submesh.kind \in {"new", "empty"}
\* SMESH_subMesh.GetSubMeshDS(): the data of the sub-mesh, or None.
GetSubMeshDS(submesh) == IF submesh.kind = "data" THEN SubMeshDS ELSE PyNone
\* Elm2D.nodes: the nodes of an element (neighbours share nodes).
ElmNodes(e) == {Node(e.tag), Node(e.tag + 1), Node(e.tag + 2)}

\* submesh_ds.GetElements() and the loop over the iterator; an attribute
\* of None raises AttributeError.
CollectElements(m, submesh_ds) ==
    IF ~Truthy(submesh_ds) THEN Raised("AttributeError")
    ELSE Returned(PySet({Elm2D(raw) : raw \in m.elms}))

\* the property without the test of submesh_ds
elements_no_ds_test(m) ==
    IF ~IsMesh(m.smesh_obj) THEN Returned(PyList(<<>>))
    ELSE IF IsEmpty(GetSubMesh(m)) THEN Returned(PyList(<<>>))
    ELSE CollectElements(m, GetSubMeshDS(GetSubMesh(m)))

\* SurfacePart.elements
elements(m) ==
    IF ~IsMesh(m.smesh_obj) THEN Returned(PyList(<<>>))
    ELSE LET submesh == GetSubMesh(m)
         IN IF IsEmpty(submesh) THEN Returned(PyList(<<>>))
            ELSE LET submesh_ds == GetSubMeshDS(submesh)
                 IN IF ~Truthy(submesh_ds) THEN Returned(PyList(<<>>))
                    ELSE CollectElements(m, submesh_ds)

\* what a collection holds, as a set
Members(coll) == IF coll.cls = "list" THEN Range(coll.elts) ELSE coll.members

\* SurfacePart.nodes
nodes(m) ==
    LET es == elements(m)
    IN IF es.status # "ok" THEN es
       ELSE Returned(PySet(UNION {ElmNodes(e) : e \in Members(es.obj)}))

\* the calls on the mesh that reading the elements makes, with their results
MeshCalls(m) ==
    <<KCall("get_mesh", <<>>, m.smesh_obj)>>
    \o (IF ~IsMesh(m.smesh_obj) THEN <<>>
        ELSE <<KCall("GetSubMesh", <<>>, GetSubMesh(m))>>
             \o (IF IsEmpty(GetSubMesh(m)) THEN <<>>
                 ELSE <<KCall("GetSubMeshDS", <<>>, GetSubMeshDS(GetSubMesh(m)))>>))

\* reading part.elements
Elements(m) ==
    /\ op' = "elements"
    /\ args' = <<>>
    /\ kcalls' = MeshCalls(m)
    /\ ret' = elements(m)
    /\ UNCHANGED partVars
    /\ UNCHANGED <<hypVars, threadVars>>

\* reading part.nodes
Nodes(m) ==
    /\ op' = "nodes"
    /\ args' = <<>>
    /\ kcalls' = MeshCalls(m)
    /\ ret' = nodes(m)
    /\ UNCHANGED partVars
    /\ UNCHANGED <<hypVars, threadVars>>

(***************************************************************************)
(* Initial state: the module has been imported (empty registry, counter    *)
(* 0) and one SurfacePart has been constructed on some surface shape.      *)
(***************************************************************************)
\* the state after SurfacePart(label, surface_shape)
Construct(surface_shape) ==
    /\ _all = EmptyDict
    /\ _indx = 0
    /\ created = <<>>
    /\ _surface_shape = to_shape(surface_shape)
    /\ _sref = _set_sref(_surface_shape)
    /\ _fshapes = {}
    /\ _subparts = EmptyDict
    /\ shape = NullShape
    /\ nparts = 0
    /\ op = "init"
    /\ args = <<>>
    /\ kcalls = <<>>
    /\ ret = Returned(PyNone)
    /\ pc = [t \in Threads |-> "idle"]
    /\ building = [t \in Threads |-> 0]
    /\ overlapped = FALSE

Init == \E surface_shape \in SurfaceInputs : Construct(surface_shape)

NextRegistry ==
    \/ \E kind \in Kinds, label \in Labels, raises \in BOOLEAN :
          CreateHypothesis(kind, label, raises)
    \/ \E hypothesis \in HypArgs : GetHypothesis(hypothesis)

SpecRegistry == Init /\ [][NextRegistry]_vars

NextConcurrent ==
    \/ \E t \in Threads, label \in Labels : ReadCounterForHandle(t, label)
    \/ \E t \in Threads : RegisterLabel(t)
    \/ \E t \in Threads : AssignId(t)
    \/ \E t \in Threads : IncrementCounter(t)

SpecConcurrent == Init /\ [][NextConcurrent]_vars

NextPart ==
    \/ \E bodies \in SeqsUpTo(Bodies, MaxArgs) :
          \E k \in [Bodies -> TrimmedShapes \cup {PyNone}] :
             /\ \A b \in Bodies \ Range(bodies) : k[b] = PyNone
             /\ Form(bodies, k)
    \/ \E unify \in BOOLEAN : Build(unify)
    \/ \E other_parts \in SeqsUpTo(Operands, MaxArgs) : Fuse(other_parts)
    \/ \E other_parts \in SeqsUpTo(Operands, MaxArgs) : Sew(other_parts)
    \/ \E other \in Operands, unify \in BOOLEAN : Merge(other, unify)
    \/ Unify
    \/ \E input \in DiscardInputs : Discard(input)
    \/ \E label \in PartLabels, spec \in StiffenerSpecs : AddStiffener(label, spec)

SpecPart == Init /\ [][NextPart]_vars

(***************************************************************************)
(* A part constructed on any kind of surface shape (none, null, no shape,  *)
(* a shape without faces, a shell), then modified by calls of at most one  *)
(* operand.                                                                *)
(***************************************************************************)
InitSref == \E surface_shape \in SrefSurfaceInputs : Construct(surface_shape)

NextPartOne ==
    \/ \E body \in Bodies, shp \in TrimmedShapes \cup {PyNone} :
          Form(<<body>>, [b \in Bodies |-> IF b = body THEN shp ELSE PyNone])
    \/ \E unify \in BOOLEAN : Build(unify)
    \/ \E other \in Operands : Fuse(<<other>>)
    \/ \E other \in Operands : Sew(<<other>>)
    \/ \E other \in Operands, unify \in BOOLEAN : Merge(other, unify)
    \/ Unify
    \/ \E input \in DiscardInputs : Discard(input)
    \/ \E label \in PartLabels, spec \in StiffenerSpecs : AddStiffener(label, spec)

SpecSref == InitSref /\ [][NextPartOne]_vars

(***************************************************************************)
(* The mesh data of a part read between such calls.                        *)
(***************************************************************************)
NextMesh ==
    \/ NextPartOne
    \/ \E m \in MeshInputs : Elements(m)
    \/ \E m \in MeshInputs : Nodes(m)

SpecMesh == Init /\ [][NextMesh]_vars

(***************************************************************************)
(* Properties of the hypothesis registry (checked under SpecRegistry)      *)
(***************************************************************************)
Created == 1..Len(created)
LatestWithLabel(l) ==
    CHOOSE i \in Created :
        /\ created[i].label = l
        /\ \A j \in Created : created[j].label = l => j <= i

\* C1: over any sequence of creations of any kinds, the first hypothesis
\* created has id 0 and every later one has an id strictly greater than the
\* id of every hypothesis created before it.
C1_IdsStrictlyIncreasing ==
    /\ Len(created) > 0 => created[1].id = 0
    /\ \A i, j \in Created : i < j => created[i].id < created[j].id

C1_Witness ==
    /\ Len(created) = 2
    /\ created[1].kind = "NumberOfSegments1D" /\ created[1].label = "e1"
    /\ created[2].kind = "MaxLength1D" /\ created[2].label = "e2"
    /\ created[1].id = 0 /\ created[2].id = 1

\* C2 as stated: a creation under a label already registered is rejected, so
\* no two hypotheses created carry the same label and the hypothesis first
\* registered under a label stays the one registered.
C2_DuplicateLabelRejected ==
    /\ \A i, j \in Created : i # j => created[i].label # created[j].label
    /\ \A l \in DOMAIN _all : \A i \in Created : created[i].label = l => _all[l] <= i

\* C2 as amended: a creation under a label already registered does not
\* fail; it re-binds the label.  The registry has one entry per label ever
\* used, each bound to the hypothesis most recently created under that label,
\* and every creation the engine accepts returns the new hypothesis,
\* registered under its label.
C2_LabelBoundToLatest ==
    /\ DOMAIN _all = {created[i].label : i \in Created}
    /\ \A l \in DOMAIN _all : _all[l] = LatestWithLabel(l)
    /\ op = "create" =>
          \/ ret = Raised("RuntimeError")
          \/ /\ ret = Returned(HypRef(Len(created)))
             /\ _all[args[2].kind] = Len(created)

C2_Witness ==
    /\ op = "create"
    /\ ret.status = "ok"
    /\ Len(created) = 2
    /\ created[1].label = created[2].label
    /\ _all[created[1].label] = 2

\* C3 as stated: for every hypothesis h created, resolve(h.label) returns
\* the same object as resolve(h), namely h, in every later state.
C3_ResolveLabelIsInstance ==
    \A i \in Created :
        /\ get_hypothesis(_all, created, HypRef(i)) = Returned(HypRef(i))
        /\ get_hypothesis(_all, created, PyStr(created[i].label)) = Returned(HypRef(i))

\* C3 as amended: resolve(h) returns h itself; resolve(h.label) never fails
\* and returns the hypothesis most recently created under h.label, which is
\* h exactly when no later creation reused h's label.  An entry is never
\* removed from the registry, but a creation under the same label replaces it.
C3_ResolveLabelIsLatest ==
    \A i \in Created :
        LET byLabel == get_hypothesis(_all, created, PyStr(created[i].label))
        IN /\ get_hypothesis(_all, created, HypRef(i)) = Returned(HypRef(i))
           /\ byLabel = Returned(HypRef(LatestWithLabel(created[i].label)))
           /\ byLabel = Returned(HypRef(i)) <=>
                 ~ \E j \in Created : j > i /\ created[j].label = created[i].label

C3_Witness ==
    /\ op = "get_hypothesis"
    /\ Len(created) = 2
    /\ created[1].label = "e1" /\ created[2].label = "e1"
    /\ args = <<PyStr("e1")>>
    /\ ret = Returned(HypRef(2))

\* C4: resolve(x) with x a string that is not a registered label raises
\* KeyError; resolve of an instance returns it, resolve of a registered label
\* returns what is registered; and no resolve changes the registry mapping,
\* the id counter or any hypothesis.
C4_ResolveMissingRaisesNoEffect ==
    [][op' = "get_hypothesis" =>
          LET x == args'[1]
          IN /\ _all' = _all /\ _indx' = _indx /\ created' = created
             /\ (x.cls = "str" /\ x.kind \notin DOMAIN _all) => ret' = Raised("KeyError")
             /\ (x.cls = "str" /\ x.kind \in DOMAIN _all) => ret' = Returned(HypRef(_all[x.kind]))
             /\ x.cls = "Hypothesis" => ret' = Returned(x)]_vars

C4_Witness ==
    /\ op = "get_hypothesis"
    /\ args = <<PyStr("missing")>>
    /\ ret.status = "KeyError"
    /\ Len(created) = 2 /\ _indx = 2

(***************************************************************************)
(* Properties of the surface part (checked under SpecPart)                 *)
(***************************************************************************)
\* C5: form(b1, ..., bn) asks the kernel once per body, returns a map with one
\* entry per given body, true exactly when the kernel's result for that body
\* is not None, and leaves _fshapes equal to its previous value united with
\* the results of the bodies mapped to true; nothing else of the part changes.
C5_FormStatusAndShapes ==
    [][op' = "form" =>
          LET status == ret'.obj.items
              n == Len(args')
          IN /\ ret'.status = "ok"
             /\ Len(kcalls') = n
             /\ \A i \in 1..n :
                   /\ kcalls'[i].fn = "form_with_solid"
                   /\ kcalls'[i].operands = <<_surface_shape, args'[i]>>
                   /\ status[args'[i]] = (kcalls'[i].result # PyNone)
             /\ DOMAIN status = Range(args')
             /\ _fshapes' = _fshapes \cup
                   {kcalls'[i].result : i \in {j \in 1..n : status[args'[j]]}}
             /\ UNCHANGED <<_surface_shape, _sref, _subparts, shape>>]_vars

C5_Witness ==
    /\ op = "form"
    /\ args = <<Shape("SOLID", 1), Shape("SOLID", 2)>>
    /\ ret.obj.items[Shape("SOLID", 1)] = FALSE
    /\ ret.obj.items[Shape("SOLID", 2)] = TRUE
    /\ Cardinality(_fshapes) = 1

\* C6: fuse called with no argument, or with arguments none of which is a
\* non-null shape, returns False, invokes no kernel function and leaves the
\* part's shape, formed shapes and subparts as they were.
C6_FuseNothingValid ==
    [][(op' = "fuse" /\ \A i \in 1..Len(args') :
                            ~(args'[i].cls = "TopoDS_Shape" /\ ~args'[i].null)) =>
          /\ ret' = Returned(PyBool(FALSE))
          /\ kcalls' = <<>>
          /\ UNCHANGED <<shape, _fshapes, _subparts, _surface_shape>>]_vars

C6_Witness ==
    /\ op = "fuse"
    /\ args = <<NullShape, NotAShape>>
    /\ ret = Returned(PyBool(FALSE))
    /\ shape = Shape("COMPOUND", 1)
    /\ _fshapes # {}
    /\ DOMAIN _subparts # {}

C8_DiscardDispatch ==
    op = "discard" =>
        LET shp == to_shape(args[1])
        IN IF shp = PyNone
           THEN ret = Returned(PyBool(FALSE)) /\ kcalls = <<>>
           ELSE /\ Len(kcalls) = 1
                /\ kcalls[1].operands = <<shp>>
                /\ shp.kind \in {"SOLID", "COMPSOLID"}
                      <=> kcalls[1].fn = "discard_faces_by_solid"
                /\ shp.kind \in {"VERTEX", "EDGE", "WIRE", "FACE", "SHELL", "COMPOUND"}
                      <=> kcalls[1].fn = "discard_faces_by_distance"

C8_Witness ==
    /\ op = "discard"
    /\ args = <<Shape("COMPSOLID", 1)>>
    /\ Len(kcalls) = 1
    /\ kcalls[1].fn = "discard_faces_by_solid"

\* C9 as stated: no add_stiffener call replaces a subpart that is registered.
C9_NeverOverwritten ==
    [][\A l \in DOMAIN _subparts :
          l \in DOMAIN _subparts' /\ _subparts'[l] = _subparts[l]]_vars

\* C9 as amended: a successful add_stiffener registers the new stiffener
\* under the label it carries, replacing whatever subpart was registered under
\* that label; the subparts under every other label stay as they were.
C9_RegisteredUnderLabelReplacing ==
    [][(op' = "add_stiffener" /\ ret'.obj # PyNone) =>
          LET new == ret'.obj
              label == new.kind
          IN /\ new = kcalls'[1].result
             /\ new.cls = "Stiffener"
             /\ \A l \in DOMAIN _subparts : _subparts[l] # new
             /\ DOMAIN _subparts' = DOMAIN _subparts \cup {label}
             /\ _subparts'[label] = new
             /\ \A l \in DOMAIN _subparts \ {label} : _subparts'[l] = _subparts[l]]_vars

C9_Witness ==
    /\ op = "add_stiffener"
    /\ args[1] = PyStr("s1")
    /\ nparts = 2
    /\ _subparts = [l \in {"s1"} |-> StiffenerObj("s1", 2)]

\* C10: when the construction of the stiffener fails, add_stiffener returns
\* None and the subpart mapping is what it was before the call.
C10_FailedConstructionNoEffect ==
    [][(op' = "add_stiffener" /\ kcalls'[1].result = PyNone) =>
          /\ ret' = Returned(PyNone)
          /\ _subparts' = _subparts]_vars

C10_Witness ==
    /\ op = "add_stiffener"
    /\ kcalls[1].result = PyNone
    /\ ret = Returned(PyNone)
    /\ DOMAIN _subparts = {"s1"}
    /\ args[1] = PyStr("s1")

\* the calls on the mesh show one of the absence cases
MeshAbsent(calls) ==
    \/ ~IsMesh(calls[1].result)
    \/ Len(calls) >= 2 /\ calls[2].result.kind \in {"new", "empty"}
    \/ Len(calls) >= 3 /\ ~Truthy(calls[3].result)

SrefOfSurfaceShape ==
    LET faces == IF Truthy(_surface_shape) /\ ~IsNull(_surface_shape)
                 THEN Range(get_faces(_surface_shape)) ELSE {}
    IN IF faces = {} THEN _sref = PyNone
       ELSE \E f \in faces :
               /\ \A g \in faces : FaceArea(g) <= FaceArea(f)
               /\ _sref = surface_of_face(f)

(***************************************************************************)
(* C12: the sref of a part is None when its surface shape is none, null or *)
(* without faces, and otherwise the surface of the largest face of the     *)
(* surface shape; it is set at construction, and no form, fuse, sew,       *)
(* merge, unify, discard or add_stiffener call changes it.                 *)
(***************************************************************************)
C12_SrefFixedAtConstruction ==
    [][/\ SrefOfSurfaceShape
       /\ SrefOfSurfaceShape'
       /\ op' \in {"form", "build", "fuse", "sew", "merge", "unify", "discard",
                   "add_stiffener"}
       /\ _sref' = _sref]_vars

C12_Witness ==
    /\ _sref = surface_of_face(Shape("FACE", 3))
    /\ op = "add_stiffener"
    /\ DOMAIN _subparts # {}
    /\ _fshapes # {}
    /\ shape # NullShape

(***************************************************************************)
(* C13: when creations run one after another, every hypothesis of every    *)
(* kind stores the id that was handed to the constructor of its engine     *)
(* handle, and the handle is bound to the one shared generation context.   *)
(***************************************************************************)
C13_HandleIdIsStoredId ==
    \A i \in Created :
        /\ created[i].handle.id = created[i].id
        /\ created[i].handle.gen = the_gen

C13_Witness ==
    /\ Len(created) = 2
    /\ created[1].kind = "Adaptive1D" /\ created[2].kind = "NetgenSimple2D"
    /\ created[1].handle.id = 0 /\ created[2].handle.id = 1
    /\ created[2].id = 1
    /\ created[1].handle.gen = created[2].handle.gen

\* every key is bound to a hypothesis of that label with an id below the counter
RegistryKeysSound ==
    \A key \in DOMAIN _all :
        /\ _all[key] \in Created
        /\ created[_all[key]].label = key
        /\ created[_all[key]].id < _indx

(***************************************************************************)
(* C15: a creation that fails while the engine handle is built leaves the  *)
(* registry and the counter as they were, so that the creation that        *)
(* succeeds next receives the id the failed one read; and every key of the *)
(* registry is bound to a hypothesis that carries the key as its label and *)
(* an id below the counter.                                                *)
(***************************************************************************)
C15_FailedCreationNoEffect ==
    [][/\ (op' = "create" /\ ret'.status # "ok") =>
             /\ _all' = _all
             /\ _indx' = _indx
             /\ created' = created
       /\ (op = "create" /\ ret.status # "ok" /\ op' = "create" /\ ret'.status = "ok") =>
             /\ created'[Len(created')].id = _indx
             /\ created'[Len(created')].handle.id = _indx
       /\ RegistryKeysSound
       /\ RegistryKeysSound']_vars

C15_Witness ==
    /\ op = "create"
    /\ ret = Raised("RuntimeError")
    /\ args = <<PyStr("NetgenSimple2D"), PyStr("e1")>>
    /\ Len(created) = 1
    /\ created[1].label = "e1"
    /\ _indx = 1

\* the hypotheses whose id has been assigned, and the two anomalies
Assigned == {i \in Created : created[i].id # NoId}
SameIdTwice == \E i, j \in Assigned : i # j /\ created[i].id = created[j].id
IdNotHandleId == \E i \in Assigned : created[i].id # created[i].handle.id

(***************************************************************************)
(* C14: nothing serialises creations.  When the statements of two          *)
(* creations interleave, a state is reached in which two hypotheses hold   *)
(* the same id or a hypothesis holds an id other than the id of its engine *)
(* handle (C14_Witness is such a state, with both); as long as every       *)
(* creation began after the one before it had finished, no such state is   *)
(* reached.                                                                *)
(***************************************************************************)
C14_SerialCreationsSafe == ~overlapped => ~SameIdTwice /\ ~IdNotHandleId

C14_Witness ==
    /\ overlapped
    /\ \A t \in Threads : pc[t] = "idle"
    /\ SameIdTwice
    /\ IdNotHandleId

====
